---- MODULE Spec2Model ----
(***************************************************************************)
(* Timed-Audio-Queue: the Playlist playback scheduler                      *)
(* (src/src/components/Playlist.tsx, second component of the file,         *)
(* lines 340-774) driven by the App's recordings poll and settings         *)
(* (src/src/App.tsx).                                                      *)
(*                                                                         *)
(* Time is counted in whole seconds (gapSeconds is in seconds, the retry   *)
(* backoff of 2000 ms is 2).  updateItems is taken to apply its updater at *)
(* once (itemsRef.current is assigned inside the updater), so a handler    *)
(* reads the entry table it has just written.  The AbortError rejection of  *)
(* a play() promise that pause() interrupts is delivered when the handler   *)
(* that paused has returned, before any other task runs.                    *)
(*                                                                         *)
(* The Playlist of this source tree takes no serverOffsetMs, reads no      *)
(* `enabled` flag and has no expiry sweep, although App.tsx passes the     *)
(* first, declares the second and imports RECORDING_TTL_MS.  Those three   *)
(* parts are modelled from the specification (trustedNow, enabledSlots,    *)
(* expirySweep/isExpired) and are marked so in MODEL_MAP.json.             *)
(***************************************************************************)
EXTENDS Integers, Sequences, FiniteSets, Bags, TLC

\* ---------------------------------------------------------------- bounds
MaxRecordings == 1
MaxTime == 3
MaxCreated == 0
RECORDING_TTL == 3
ServerSkew == 1
MaxEntries == 7
MaxRows == 2
MaxRequests == 3
MaxTotalPlays == 2
MaxPasswords == 1
MaxUsers == 1
MaxPersists == 2

\* ------------------------------------------------------- program constants
TOTAL_PLAYS == 6
RetryDelay == 2
MAX_REPEAT_PLAYS == 6
GapUnit == 10
RateUnit == 1000

Recordings == 1..MaxRecordings
NoRec == 0 - 1
NoId == <<0, 0>>
Null == 0 - 1
Missing == 0 - 2
Unparsable == 0 - 3
NoResponse == <<>>

VARIABLES
  now,                 \* Date.now() of the client, in seconds
  server,              \* the recordings the API holds: id -> created_at, or NoRec
  recordings,          \* App state `recordings` (the Playlist prop)
  settings,            \* App state `settings.repeatSettings`
  serverOffsetMs,      \* App state `serverOffsetMs`
  userActivated,       \* the window has seen a pointerdown or keydown
  items,               \* itemsRef.current
  timersRef,           \* timersRef.current: entry id -> handle of its slot timer
  retryTimersRef,      \* retryTimersRef.current: entry id -> handle of its retry timer
  audiosRef,           \* audiosRef.current: entry id -> its retained audio element
  playbackQueue,       \* playbackQueueRef.current
  scheduledRecordings, \* scheduledRecordingsRef.current (the seen-set)
  pendingAutoplay,     \* pendingAutoplayRef.current, in insertion order
  autoplayUnlocked,    \* autoplayUnlockedRef.current
  silentPending,       \* the silent clip's play() promise has not settled yet
  timeouts,            \* the window.setTimeout timers that are armed
  previousScheduleKey, \* previousScheduleKeyRef.current
  mounted,             \* the Playlist component is mounted
  repeatSettings,      \* Settings form state `repeatSettings`, as typed in
  normalized,          \* the list the normalizer last returned
  normalizer,          \* which normalizer returned it, "none" before the first
  inFlight,            \* the response fetchRecordings is reading, NoResponse if none
  skew,                \* how far the server's clock is ahead of the client's
  sounds,              \* API server: the rows of table `sounds` that match the file
  requests,            \* API server: the requests for the file under /uploads
  adminPassword,       \* App state `adminPassword`
  recorderUsers,       \* App state `recorderUsers`
  persists,            \* the calls of persistAuthState: where each stands
  manualRequest,       \* history: ids whose latest playback request came from retryPlay
  observed             \* history: how each seen recording was last scheduled or met again

vars == <<now, server, recordings, settings, serverOffsetMs, userActivated,
          items, timersRef, retryTimersRef, audiosRef,
          playbackQueue, scheduledRecordings, pendingAutoplay, autoplayUnlocked,
          silentPending, timeouts, previousScheduleKey, mounted,
          repeatSettings, normalized, normalizer, inFlight, skew,
          sounds, requests, adminPassword, recorderUsers, persists,
          manualRequest, observed>>

\* ---------------------------------------------------------------- helpers
Max(a, b) == IF a >= b THEN a ELSE b

Min(a, b) == IF a <= b THEN a ELSE b

Range(q) == {q[i] : i \in DOMAIN q}

MapPut(f, k, v) == [x \in DOMAIN f \cup {k} |-> IF x = k THEN v ELSE f[x]]

MapDel(f, k) == [x \in DOMAIN f \ {k} |-> f[x]]

EmptyMap == [x \in {} |-> 0]

SeqRemove(q, x) == SelectSeq(q, LAMBDA y : y # x)

BagAdd(B, e) == B (+) SetToBag({e})

BagDel(B, e) == B (-) SetToBag({e})

\* The Playlist's mutable state as one value, so that a handler is a function
\* from state to state and handlers compose the way the calls do.
St == [items |-> items, timersRef |-> timersRef, retryTimersRef |-> retryTimersRef,
       audiosRef |-> audiosRef, playbackQueue |-> playbackQueue,
       scheduledRecordings |-> scheduledRecordings, pendingAutoplay |-> pendingAutoplay,
       autoplayUnlocked |-> autoplayUnlocked, silentPending |-> silentPending,
       timeouts |-> timeouts, previousScheduleKey |-> previousScheduleKey,
       aborts |-> <<>>, clock |-> now, writes |-> {}]

\* ------------------------------------------------------------ entry table
ItemIds(its) == {its[i].id : i \in DOMAIN its}

getItem(s, id) == id \in ItemIds(s.items)

SetStatus(its, id, st) ==
  [i \in DOMAIN its |-> IF its[i].id = id THEN [its[i] EXCEPT !.status = st] ELSE its[i]]

\* The status changes a write of status st to entry id makes, as <<from, to>>
\* with the code that writes: "timer" the slot timer callback, "play" playOnce,
\* "error" handleError, "ended" onended.  A handler's record keeps them in its
\* field `writes`.
Changes(its, id, st, by) ==
  {<<its[i].status, st, by>> :
     i \in {j \in DOMAIN its : its[j].id = id /\ its[j].status # st}}

StatusesOf(its, id) == {its[i].status : i \in {j \in DOMAIN its : its[j].id = id}}

Playing(its) == {i \in DOMAIN its : its[i].status = "playing"}

getCurrentlyPlayingId(s) ==
  IF Playing(s.items) = {} THEN NoId
  ELSE s.items[CHOOSE i \in Playing(s.items) : \A j \in Playing(s.items) : i <= j].id

\* ------------------------------------------------------------------ timers
Timeout(kind, id, due) == [kind |-> kind, id |-> id, due |-> due]

\* window.clearTimeout(ref[id]): the handle names one timer; clearing a handle
\* whose timer has fired already does nothing.
clearTimeout(tos, kind, ref, id) ==
  IF id \in DOMAIN ref THEN BagDel(tos, Timeout(kind, id, ref[id])) ELSE tos

\* --------------------------------------------------------- playback queue
enqueuePlayback(s, id) ==
  IF id \in Range(s.playbackQueue) THEN s
  ELSE [s EXCEPT !.playbackQueue = Append(@, id)]

removeFromQueue(s, id) == [s EXCEPT !.playbackQueue = SeqRemove(@, id)]

\* audio?.pause() on the element audiosRef holds for id, followed by the
\* removal of the reference: a sounding element just stops; an element whose
\* play() is still pending rejects it (AbortError) once the handler that paused
\* it has returned, which s.aborts keeps for settle.
pauseAndRelease(s, id) ==
  IF id \notin DOMAIN s.audiosRef THEN s
  ELSE [s EXCEPT !.audiosRef = MapDel(@, id),
                 !.aborts = IF s.audiosRef[id].promises # <<>>
                            THEN Append(@, [id |-> id, promises |-> s.audiosRef[id].promises])
                            ELSE @]

\* audiosRef.current[id] = null.  It runs in the handlers of the element that
\* audiosRef holds for id, which has delivered its last event by then.
release(s, id) == [s EXCEPT !.audiosRef = MapDel(@, id)]

removeItem(s, id) ==
  LET t1 == clearTimeout(s.timeouts, "slot", s.timersRef, id)
      t2 == clearTimeout(t1, "retry", s.retryTimersRef, id)
      s1 == pauseAndRelease(s, id)
  IN [s1 EXCEPT !.timeouts = t2,
                !.timersRef = MapDel(@, id),
                !.retryTimersRef = MapDel(@, id),
                !.pendingAutoplay = SeqRemove(@, id),
                !.playbackQueue = SeqRemove(@, id),
                !.items = SelectSeq(@, LAMBDA it : it.id # id)]

\* queueRetry without the clearTimeout of the timer it armed before.
queueRetryKeepsPrevious(s, id) ==
  [s EXCEPT !.timeouts = BagAdd(@, Timeout("retry", id, s.clock + RetryDelay)),
            !.retryTimersRef = MapPut(@, id, s.clock + RetryDelay)]

queueRetry(s, id) ==
  LET t1 == clearTimeout(s.timeouts, "retry", s.retryTimersRef, id)
  IN [s EXCEPT !.timeouts = BagAdd(t1, Timeout("retry", id, s.clock + RetryDelay)),
               !.retryTimersRef = MapPut(@, id, s.clock + RetryDelay)]

\* playOnce up to `await audio.play()`: the outcome of play() arrives later, as
\* PlayResolved / PlayRejected.  A retained element is reused (currentTime = 0):
\* if it is already sounding its new play() resolves at once.
playOnce(s, id, manualTrigger) ==
  IF ~getItem(s, id) THEN s
  ELSE LET t1 == clearTimeout(s.timeouts, "slot", s.timersRef, id)
           audio == IF id \in DOMAIN s.audiosRef
                    THEN IF s.audiosRef[id].mode = "playing"
                         THEN s.audiosRef[id]
                         ELSE [mode |-> "loading",
                               promises |-> Append(s.audiosRef[id].promises, manualTrigger)]
                    ELSE [mode |-> "loading", promises |-> <<manualTrigger>>]
       IN [s EXCEPT !.timeouts = t1,
                    !.timersRef = MapDel(@, id),
                    !.audiosRef = MapPut(@, id, audio),
                    !.items = SetStatus(@, id, "playing"),
                    !.writes = @ \cup Changes(s.items, id, "playing", "play")]

\* playWhenAvailable without the look at the entry that is playing.
playWhenAvailableUnguarded(s, id, manualTrigger) ==
  playOnce(removeFromQueue(s, id), id, manualTrigger)

playWhenAvailable(s, id, manualTrigger) ==
  LET currentlyPlayingId == getCurrentlyPlayingId(s)
  IN IF currentlyPlayingId # NoId /\ currentlyPlayingId # id
     THEN enqueuePlayback(s, id)
     ELSE playOnce(removeFromQueue(s, id), id, manualTrigger)

startNextInQueue(s) ==
  IF s.playbackQueue = <<>> THEN s
  ELSE playWhenAvailable([s EXCEPT !.playbackQueue = Tail(@)], Head(s.playbackQueue), FALSE)

\* handleError without the note in pendingAutoplayRef.
handleErrorUnqueued(s, id, shouldQueueAutoplay, shouldRetry) ==
  LET s1 == release(s, id)
      st == IF shouldRetry THEN "ready" ELSE "error"
      s2 == [s1 EXCEPT !.items = SetStatus(@, id, st),
                       !.writes = @ \cup Changes(s1.items, id, st, "error")]
  IN IF shouldRetry THEN queueRetry(s2, id)
     ELSE startNextInQueue(removeItem(s2, id))

handleError(s, id, shouldQueueAutoplay, shouldRetry) ==
  LET s1 == release(s, id)
      st == IF shouldRetry THEN "ready" ELSE "error"
      s2 == [s1 EXCEPT !.items = SetStatus(@, id, st),
                       !.writes = @ \cup Changes(s1.items, id, st, "error"),
                       !.pendingAutoplay = IF shouldQueueAutoplay /\ id \notin Range(@)
                                           THEN Append(@, id) ELSE @]
  IN IF shouldRetry THEN queueRetry(s2, id)
     ELSE startNextInQueue(removeItem(s2, id))

\* audio.onended with the queue advanced before the entry is marked and removed.
onendedAdvancesFirst(s, id) ==
  LET s1 == startNextInQueue(release(s, id))
      s2 == [s1 EXCEPT !.items = SetStatus(@, id, "done"),
                       !.writes = @ \cup Changes(s1.items, id, "done", "ended")]
  IN removeItem(s2, id)

\* audio.onended
onended(s, id) ==
  LET s1 == release(s, id)
      s2 == [s1 EXCEPT !.items = SetStatus(@, id, "done"),
                       !.writes = @ \cup Changes(s1.items, id, "done", "ended")]
  IN startNextInQueue(removeItem(s2, id))

RECURSIVE playEach(_, _)
playEach(s, ids) ==
  IF ids = <<>> THEN s
  ELSE playEach(playWhenAvailable(s, Head(ids), TRUE), Tail(ids))

retryPendingAutoplay(s) ==
  playEach([s EXCEPT !.pendingAutoplay = <<>>], s.pendingAutoplay)

\* attemptAutoplayUnlock without its guard.
attemptAutoplayUnlockAgain(s) ==
  [s EXCEPT !.autoplayUnlocked = TRUE, !.silentPending = TRUE]

attemptAutoplayUnlock(s) ==
  IF s.autoplayUnlocked THEN s
  ELSE [s EXCEPT !.autoplayUnlocked = TRUE, !.silentPending = TRUE]

\* The catch block of playOnce for one rejected play() promise.
playCatch(s, id, manualTrigger) ==
  LET s1 == handleError(s, id, ~manualTrigger, ~manualTrigger)
  IN IF manualTrigger THEN s1 ELSE attemptAutoplayUnlock(s1)

RECURSIVE playCatchAll(_, _, _)
playCatchAll(s, id, promises) ==
  IF promises = <<>> THEN s
  ELSE playCatchAll(playCatch(s, id, Head(promises)), id, Tail(promises))

\* The play() promises that pause() aborted reject, in the order of the pauses:
\* each runs the catch block of its playOnce call.
RECURSIVE settle(_)
settle(s) ==
  IF s.aborts = <<>> THEN s
  ELSE settle(playCatchAll([s EXCEPT !.aborts = Tail(@)],
                           Head(s.aborts).id, Head(s.aborts).promises))

\* The state a handler leaves, once the rejections it caused have been delivered.
Store(s) ==
  \E f \in {settle(s)} :
     /\ items' = f.items
     /\ timersRef' = f.timersRef
     /\ retryTimersRef' = f.retryTimersRef
     /\ audiosRef' = f.audiosRef
     /\ playbackQueue' = f.playbackQueue
     /\ scheduledRecordings' = f.scheduledRecordings
     /\ pendingAutoplay' = f.pendingAutoplay
     /\ autoplayUnlocked' = f.autoplayUnlocked
     /\ silentPending' = f.silentPending
     /\ timeouts' = f.timeouts
     /\ previousScheduleKey' = f.previousScheduleKey

\* ----------------------------------------------------------- configuration
\* playbackRate is kept in hundredths (100 is 1.0x).
Repeat(gap, rate, on) == [gapSeconds |-> gap, playbackRate |-> rate, enabled |-> on]

\* App's initial settings.
DefaultSettings ==
  <<Repeat(0, 100, TRUE), Repeat(2, 100, TRUE), Repeat(30, 100, TRUE),
    Repeat(30, 100, TRUE), Repeat(30, 100, TRUE), Repeat(30, 100, TRUE)>>

\* Settings a user can submit from the Settings page (already cut to six by
\* Settings.handleSubmit): two plays due at once, at one and a half times the
\* speed the second, with slot 2 and the last three slots switched off.
SkipSettings ==
  <<Repeat(0, 100, TRUE), Repeat(1, 100, FALSE), Repeat(0, 150, TRUE),
    Repeat(30, 100, FALSE), Repeat(30, 100, FALSE), Repeat(30, 100, FALSE)>>

Configs == {DefaultSettings, SkipSettings}

\* The Playlist's own normalization, for numbers kept with `second` units to
\* the second and `one` units to the rate 1.0.
sanitizedRepeatsIn(rs, second, one) ==
  [i \in 1..TOTAL_PLAYS |->
     IF i <= Len(rs)
     THEN [gapSeconds |-> Max(0, rs[i].gapSeconds),
           playbackRate |-> Min(3 * one, Max(one \div 2, rs[i].playbackRate))]
     ELSE [gapSeconds |-> 30 * second, playbackRate |-> one]]

sanitizedRepeats(rs) == sanitizedRepeatsIn(rs, 1, 100)

\* The enabled flag of each of the six slots: a missing flag counts as enabled,
\* a missing slot is padded enabled, and slot 1 is switched on if none is.
enabledSlots(rs) ==
  LET raw == [i \in 1..TOTAL_PLAYS |-> IF i <= Len(rs) THEN rs[i].enabled ELSE TRUE]
  IN IF \E i \in 1..TOTAL_PLAYS : raw[i] THEN raw ELSE [raw EXCEPT ![1] = TRUE]

\* JSON.stringify of the normalized configuration: it is only ever compared for
\* equality, and the serialization of numbers and booleans is one-to-one.
scheduleKey(rs) == <<sanitizedRepeats(rs), enabledSlots(rs)>>

\* The cumulative offset of slot k: the gaps of the enabled slots up to it.
RECURSIVE scheduledOffset(_, _)
scheduledOffset(rs, k) ==
  IF k = 0 THEN 0
  ELSE scheduledOffset(rs, k - 1)
       + (IF enabledSlots(rs)[k] THEN sanitizedRepeats(rs)[k].gapSeconds ELSE 0)

\* ------------------------------------------------- the settings form
\* What the Settings form holds is a list of any length of JavaScript numbers
\* and an optional flag.  A number is kept in fixed point, gapSeconds in tenths
\* of a second and playbackRate in thousandths, so that Math.round and
\* toFixed(2) have something to round; a record without the field `enabled`
\* is an entry whose flag is absent.
isEnabled(repeat) == IF "enabled" \in DOMAIN repeat THEN repeat.enabled ELSE TRUE

\* Math.round applied to a number that half a unit was added to by hand.
MathRoundOfHalfMore(g) == GapUnit * ((g + GapUnit) \div GapUnit)

\* Math.round: to the nearest integer, a tie goes up.
MathRound(g) == GapUnit * ((g + GapUnit \div 2) \div GapUnit)

\* Number(r.toFixed(2)): to the nearest hundredth, a tie goes away from zero
\* (the form's rates are chosen so that a tie is exact in binary).
toFixed2(r) ==
  LET h == RateUnit \div 100
      up(x) == h * ((x + h \div 2) \div h)
  IN IF r >= 0 THEN up(r) ELSE 0 - up(0 - r)

\* handleSubmit without the rule that switches an entry on when none is.
handleSubmitUnforced(form) ==
  LET sanitized == [i \in 1..Min(Len(form), 6) |->
                      [gapSeconds |-> Max(0, MathRound(form[i].gapSeconds)),
                       playbackRate |-> Min(3 * RateUnit,
                                            Max(RateUnit \div 2, toFixed2(form[i].playbackRate))),
                       enabled |-> isEnabled(form[i])]]
  IN [i \in 1..6 |->
        IF i <= Len(sanitized) THEN sanitized[i]
        ELSE [gapSeconds |-> 30 * GapUnit, playbackRate |-> RateUnit, enabled |-> TRUE]]

\* handleSubmit switching the last entry on, not the first, when none is.
handleSubmitForcesLast(form) ==
  LET padded == handleSubmitUnforced(form)
  IN IF \E i \in 1..6 : isEnabled(padded[i]) THEN padded
     ELSE [padded EXCEPT ![6].enabled = TRUE]

\* Settings.handleSubmit, up to the list it hands to onChange.
handleSubmit(form) ==
  LET sanitized == [i \in 1..Min(Len(form), 6) |->
                      [gapSeconds |-> Max(0, MathRound(form[i].gapSeconds)),
                       playbackRate |-> Min(3 * RateUnit,
                                            Max(RateUnit \div 2, toFixed2(form[i].playbackRate))),
                       enabled |-> isEnabled(form[i])]]
      padded == [i \in 1..6 |->
                   IF i <= Len(sanitized) THEN sanitized[i]
                   ELSE [gapSeconds |-> 30 * GapUnit, playbackRate |-> RateUnit,
                         enabled |-> TRUE]]
  IN IF \E i \in 1..6 : isEnabled(padded[i]) THEN padded
     ELSE [padded EXCEPT ![1].enabled = TRUE]

\* utils/repeats.ts
sanitizeRepeatSettings(repeats) ==
  LET sanitized == [i \in 1..Min(Len(repeats), MAX_REPEAT_PLAYS) |->
                      [gapSeconds |-> Max(0, MathRound(repeats[i].gapSeconds)),
                       playbackRate |-> Min(3 * RateUnit,
                                            Max(RateUnit \div 2,
                                                toFixed2(repeats[i].playbackRate)))]]
  IN [i \in 1..MAX_REPEAT_PLAYS |->
        IF i <= Len(sanitized) THEN sanitized[i]
        ELSE [gapSeconds |-> 30 * GapUnit, playbackRate |-> RateUnit]]

\* The running total taken over every entry, the disabled ones too.
RECURSIVE nextPlayTotalOfAll(_, _)
nextPlayTotalOfAll(rs, k) ==
  IF k = 0 THEN 0 ELSE nextPlayTotalOfAll(rs, k - 1) + Max(0, rs[k].gapSeconds)

\* Settings.nextPlayTimes: the running total of the gaps of the enabled
\* entries, Null for a disabled one.
RECURSIVE nextPlayTotal(_, _)
nextPlayTotal(rs, k) ==
  IF k = 0 THEN 0
  ELSE nextPlayTotal(rs, k - 1)
       + (IF isEnabled(rs[k]) THEN Max(0, rs[k].gapSeconds) ELSE 0)

\* nextPlayTimes noting the total before it adds the entry's own gap.
nextPlayTimesBeforeGap(rs) ==
  [i \in 1..Len(rs) |-> IF isEnabled(rs[i]) THEN nextPlayTotal(rs, i - 1) ELSE Null]

nextPlayTimes(rs) ==
  [i \in 1..Len(rs) |-> IF isEnabled(rs[i]) THEN nextPlayTotal(rs, i) ELSE Null]

\* The entries the form is filled with, and the lists of them.
FormEntries ==
  {[gapSeconds |-> 0, playbackRate |-> 1004, enabled |-> TRUE],
   [gapSeconds |-> 100, playbackRate |-> 1000, enabled |-> TRUE],
   [gapSeconds |-> 100, playbackRate |-> 3125, enabled |-> FALSE],
   [gapSeconds |-> 25, playbackRate |-> 250],
   [gapSeconds |-> 0 - 15, playbackRate |-> 1000, enabled |-> FALSE]}

Forms == UNION {[1..n -> FormEntries] : n \in 0..MaxEntries}

\* App's initial settings, as the form shows them.
DefaultForm ==
  [i \in 1..6 |-> [gapSeconds |-> DefaultSettings[i].gapSeconds * GapUnit,
                   playbackRate |-> DefaultSettings[i].playbackRate * (RateUnit \div 100),
                   enabled |-> DefaultSettings[i].enabled]]

\* ------------------------------------------------------------------ clock
\* trustedNow that reads the local clock alone.
trustedNowLocal(offset) == now

trustedNow(offset) == now + offset

isExpired(createdAt, tnow) == createdAt + RECORDING_TTL <= tnow

\* -------------------------------------------------------------- scheduling
\* The body of sanitizedRepeats.forEach for slots k..6 of one recording.
RECURSIVE scheduleSlots(_, _, _, _, _, _, _, _)
scheduleSlots(s, rec, rs, baseTime, tnow, k, accumulatedMs, played) ==
  IF k > TOTAL_PLAYS THEN s
  ELSE IF ~enabledSlots(rs)[k]
       THEN scheduleSlots(s, rec, rs, baseTime, tnow, k + 1, accumulatedMs, played)
       ELSE LET acc == accumulatedMs + sanitizedRepeats(rs)[k].gapSeconds
                playId == <<rec.id, k>>
                scheduledAt == baseTime + acc
                delay == Max(0, scheduledAt - tnow)
                newItem == [id |-> playId, createdAt |-> rec.createdAt,
                            status |-> "scheduled", playNumber |-> played + 1,
                            scheduledAt |-> scheduledAt,
                            playbackRate |-> sanitizedRepeats(rs)[k].playbackRate]
                s1 == [s EXCEPT !.items = Append(@, newItem),
                                !.timeouts = BagAdd(@, Timeout("slot", playId, s.clock + delay)),
                                !.timersRef = MapPut(@, playId, s.clock + delay)]
            IN scheduleSlots(s1, rec, rs, baseTime, tnow, k + 1, acc, played + 1)

\* The scheduling effect without its seen-set guard.
alreadyScheduledUnchecked(s, rec) == FALSE

alreadyScheduled(s, rec) == rec.id \in s.scheduledRecordings

\* The scheduling effect: recordings.forEach(...).
RECURSIVE scheduleRecordings(_, _, _, _)
scheduleRecordings(s, recs, rs, tnow) ==
  IF recs = <<>> THEN s
  ELSE LET rec == Head(recs)
       IN IF alreadyScheduled(s, rec) \/ isExpired(rec.createdAt, tnow)
          THEN scheduleRecordings(s, Tail(recs), rs, tnow)
          ELSE LET s1 == [s EXCEPT !.scheduledRecordings = @ \cup {rec.id}]
                   s2 == scheduleSlots(s1, rec, rs, tnow, tnow, 1, 0, 0)
               IN scheduleRecordings(attemptAutoplayUnlock(s2), Tail(recs), rs, tnow)

\* Object.values(ref).forEach(clearTimeout)
RECURSIVE clearAll(_, _, _, _)
clearAll(tos, kind, ref, ids) ==
  IF ids = {} THEN tos
  ELSE LET id == CHOOSE x \in ids : TRUE
       IN clearAll(clearTimeout(tos, kind, ref, id), kind, ref, ids \ {id})

RECURSIVE pauseAll(_, _)
pauseAll(s, ids) ==
  IF ids = {} THEN s
  ELSE LET id == CHOOSE x \in ids : TRUE
       IN pauseAll(pauseAndRelease(s, id), ids \ {id})

\* audio?.pause() on an element that audiosRef goes on holding.
pauseOnly(s, id) ==
  [s EXCEPT !.audiosRef[id] = [mode |-> "paused", promises |-> <<>>],
            !.aborts = IF s.audiosRef[id].promises # <<>>
                       THEN Append(@, [id |-> id, promises |-> s.audiosRef[id].promises])
                       ELSE @]

RECURSIVE pauseEach(_, _)
pauseEach(s, ids) ==
  IF ids = {} THEN s
  ELSE LET id == CHOOSE x \in ids : TRUE
       IN pauseEach(pauseOnly(s, id), ids \ {id})

\* The cleanup of the unmount effect: every handle of the two timer refs is
\* cleared and every retained element paused; the refs themselves and the
\* entry table are left as they are.
unmountCleanup(s) ==
  LET t1 == clearAll(s.timeouts, "slot", s.timersRef, DOMAIN s.timersRef)
      t2 == clearAll(t1, "retry", s.retryTimersRef, DOMAIN s.retryTimersRef)
  IN [pauseEach(s, DOMAIN s.audiosRef) EXCEPT !.timeouts = t2]

\* The schedule-key effect without the clearing of the retry timers.
scheduleKeyEffectKeepsRetries(s, key) ==
  IF s.previousScheduleKey = key THEN s
  ELSE LET t1 == clearAll(s.timeouts, "slot", s.timersRef, DOMAIN s.timersRef)
           s1 == pauseAll(s, DOMAIN s.audiosRef)
       IN [s1 EXCEPT !.timeouts = t1,
                     !.timersRef = EmptyMap,
                     !.audiosRef = EmptyMap,
                     !.pendingAutoplay = <<>>,
                     !.playbackQueue = <<>>,
                     !.scheduledRecordings = {},
                     !.items = <<>>,
                     !.previousScheduleKey = key]

\* The schedule-key effect.
scheduleKeyEffect(s, key) ==
  IF s.previousScheduleKey = key THEN s
  ELSE LET t1 == clearAll(s.timeouts, "slot", s.timersRef, DOMAIN s.timersRef)
           t2 == clearAll(t1, "retry", s.retryTimersRef, DOMAIN s.retryTimersRef)
           s1 == pauseAll(s, DOMAIN s.audiosRef)
       IN [s1 EXCEPT !.timeouts = t2,
                     !.timersRef = EmptyMap,
                     !.retryTimersRef = EmptyMap,
                     !.audiosRef = EmptyMap,
                     !.pendingAutoplay = <<>>,
                     !.playbackQueue = <<>>,
                     !.scheduledRecordings = {},
                     !.items = <<>>,
                     !.previousScheduleKey = key]

\* ------------------------------------------------------------ expiry sweep
RecOf(id) == id[1]

RECURSIVE removeEach(_, _)
removeEach(s, ids) ==
  IF ids = <<>> THEN s ELSE removeEach(removeItem(s, Head(ids)), Tail(ids))

\* The recordings the sweep tears down: those of the seen-set that the list no
\* longer holds, and those whose TTL has run out.
goneRecordings(s, recs, tnow) ==
  {r \in s.scheduledRecordings :
     \/ \A i \in DOMAIN recs : recs[i].id # r
     \/ \E i \in DOMAIN recs : recs[i].id = r /\ isExpired(recs[i].createdAt, tnow)
     \/ \E i \in DOMAIN s.items :
          RecOf(s.items[i].id) = r /\ isExpired(s.items[i].createdAt, tnow)}

\* Every entry of a gone recording is removed with removeItem, the recording
\* leaves the seen-set, and if the entry that held the turn was among them the
\* queue moves on.
expirySweep(s, recs, tnow) ==
  LET gone == goneRecordings(s, recs, tnow)
      doomed == SelectSeq(s.items, LAMBDA it : RecOf(it.id) \in gone)
      ids == [i \in DOMAIN doomed |-> doomed[i].id]
      heldTurn == RecOf(getCurrentlyPlayingId(s)) \in gone
      s1 == [removeEach(s, ids) EXCEPT !.scheduledRecordings = @ \ gone]
  IN IF heldTurn THEN startNextInQueue(s1) ELSE s1

\* ------------------------------------------------------------------ state
InitPlaylist ==
  /\ now = 0
  /\ server = [r \in Recordings |-> NoRec]
  /\ recordings = <<>>
  /\ settings = DefaultSettings
  /\ serverOffsetMs = 0
  /\ userActivated = FALSE
  /\ items = <<>>
  /\ timersRef = EmptyMap
  /\ retryTimersRef = EmptyMap
  /\ audiosRef = EmptyMap
  /\ playbackQueue = <<>>
  /\ scheduledRecordings = {}
  /\ pendingAutoplay = <<>>
  /\ autoplayUnlocked = FALSE
  /\ silentPending = FALSE
  /\ timeouts = EmptyBag
  /\ previousScheduleKey = scheduleKey(DefaultSettings)
  /\ mounted = TRUE
  /\ inFlight = NoResponse
  /\ manualRequest = {}
  /\ observed = EmptyMap

\* The App with its Playlist; the Settings form shows the App's settings.
InitApp ==
  /\ InitPlaylist
  /\ repeatSettings = DefaultForm
  /\ normalized = <<>>
  /\ normalizer = "none"

\* The API server holds the row of one uploaded file, as POST /api/sounds
\* inserts it; nobody has asked for the file.
NewRequest == [at |-> "idle", method |-> "GET", totalAllowed |-> 0, increments |-> 0]

InitApi ==
  /\ sounds = <<[plays_completed |-> 0, total_plays |-> TOTAL_PLAYS]>>
  /\ requests = [r \in 1..MaxRequests |-> NewRequest]

\* defaultAuthState, and no call of persistAuthState yet. Passwords and users
\* are numbered; password 0 is 'admin123'.
AuthState(password, users) == [adminPassword |-> password, recorderUsers |-> users]

defaultAuthState == AuthState(0, <<>>)

NoCall == [at |-> "idle", previousState |-> defaultAuthState,
           nextAuth |-> defaultAuthState, returned |-> FALSE]

InitAuth ==
  /\ adminPassword = defaultAuthState.adminPassword
  /\ recorderUsers = defaultAuthState.recorderUsers
  /\ persists = [c \in 1..MaxPersists |-> NoCall]

\* ... with the two clocks in step.
Init == InitApp /\ skew = 0 /\ InitApi /\ InitAuth

Api == <<sounds, requests>>

Auth == <<adminPassword, recorderUsers, persists>>

Offstage == <<Api, Auth>>

App == <<server, recordings, settings, serverOffsetMs>>

Platform == <<userActivated, mounted>>

Form == <<repeatSettings, normalized, normalizer>>

Fetch == <<inFlight, skew>>

Playlist == <<items, timersRef, retryTimersRef, audiosRef, playbackQueue,
              scheduledRecordings, pendingAutoplay, autoplayUnlocked, silentPending,
              timeouts, previousScheduleKey>>

\* The history of manual requests: what is left of `base` once the handler ran;
\* and of the observations: a seen recording is "listed" when the list brought
\* it, "again" when a later poll listed it while it was still seen (`kept`), and
\* "reset" when a change of the schedule key scheduled it anew.
Requested(base) == manualRequest' = base \cap ItemIds(items')

Observed(kept, again, reset) ==
  observed' = [r \in scheduledRecordings' |->
                 IF r \in reset THEN "reset"
                 ELSE IF r \in again THEN "again"
                 ELSE IF r \in kept \cap DOMAIN observed THEN observed[r]
                 ELSE "listed"]

\* The observations after a poll: a recording that is met again when none of
\* its entries is left is "over".
Met(kept, again) ==
  \E over \in {{r \in again : \A id \in ItemIds(items) : RecOf(id) # r}} :
     observed' = [r \in scheduledRecordings' |->
                    IF r \in over THEN "over"
                    ELSE IF r \in again THEN "again"
                    ELSE IF r \in kept \cap DOMAIN observed THEN observed[r]
                    ELSE "listed"]

\* ------------------------------------------------------------ environment
\* One second passes, once the timers that are due have run, and the 1-second
\* interval runs its callback.
Tick ==
  /\ now < MaxTime
  /\ \A t \in BagToSet(timeouts) : t.due > now
  /\ now' = now + 1
  /\ Store(IF mounted
           THEN expirySweep([St EXCEPT !.clock = now + 1], recordings,
                            now + 1 + serverOffsetMs)
           ELSE St)
  /\ Requested(manualRequest)
  /\ Observed(scheduledRecordings, {}, {})
  /\ UNCHANGED <<App, Platform, Form, Fetch, Offstage>>

\* A recording is saved on the server, stamped with the server's clock.
Upload(r) ==
  /\ mounted
  /\ server[r] = NoRec
  /\ now <= MaxCreated
  /\ \A q \in Recordings : q < r => server[q] # NoRec
  /\ server' = [server EXCEPT ![r] = now + skew]
  /\ UNCHANGED <<now, recordings, settings, serverOffsetMs, Platform, Playlist, Form, Fetch,
                 Offstage, manualRequest, observed>>

\* The rows of /sounds: what the server holds, in id order.
RECURSIVE rowsOf(_)
rowsOf(r) ==
  IF r > MaxRecordings THEN <<>>
  ELSE IF server[r] # NoRec
       THEN <<[id |-> r, created_at |-> server[r]]>> \o rowsOf(r + 1)
       ELSE rowsOf(r + 1)

\* parseServerTimestamp: a created_at that is missing, empty or not a date
\* Date.parse can read stands for `now`.
parseServerTimestamp(timestamp, nowUsed) ==
  IF timestamp \in {Missing, Unparsable} THEN nowUsed ELSE timestamp

\* fetchRecordings with the TTL filter keeping the recordings that have expired.
readResponseKeepsExpired(response, clientNow) ==
  IF ~response.ok
  THEN [recordings |-> <<>>, hasServerNow |-> FALSE, serverNow |-> Null]
  ELSE LET hasServerNow == response.date # Null
           nowUsed == IF hasServerNow THEN response.date ELSE clientNow
           mapped == [i \in DOMAIN response.rows |->
                        [id |-> response.rows[i].id,
                         createdAt |-> parseServerTimestamp(response.rows[i].created_at,
                                                            nowUsed)]]
       IN [recordings |-> SelectSeq(mapped, LAMBDA rec : rec.createdAt + RECORDING_TTL <= nowUsed),
           hasServerNow |-> hasServerNow,
           serverNow |-> response.date]

\* fetchRecordings from `const clientNow = Date.now()` on: response is what
\* fetch resolved to, its status, its Date header (Null when it has none or
\* does not expose it) and the rows of its body.
readResponse(response, clientNow) ==
  IF ~response.ok
  THEN [recordings |-> <<>>, hasServerNow |-> FALSE, serverNow |-> Null]
  ELSE LET hasServerNow == response.date # Null
           nowUsed == IF hasServerNow THEN response.date ELSE clientNow
           mapped == [i \in DOMAIN response.rows |->
                        [id |-> response.rows[i].id,
                         createdAt |-> parseServerTimestamp(response.rows[i].created_at,
                                                            nowUsed)]]
       IN [recordings |-> SelectSeq(mapped, LAMBDA rec : rec.createdAt + RECORDING_TTL > nowUsed),
           hasServerNow |-> hasServerNow,
           serverNow |-> response.date]

\* The response of the API: "dated" is one with a Date header, "undated" one
\* without, "failed" one that is not ok.
Response(outcome) ==
  [ok |-> outcome # "failed",
   date |-> IF outcome = "dated" THEN now + skew ELSE Null,
   rows |-> rowsOf(1)]

\* fetchRecordings, when the body is read in the instant the response arrives.
fetchRecordings(outcome) == readResponse(Response(outcome), now)

\* App.load / refreshRecordings, and the Playlist effects the new props run.
LoadRecordings(outcome) ==
  LET got == fetchRecordings(outcome)
      offset == IF got.hasServerNow THEN got.serverNow - now ELSE serverOffsetMs
      tnow == trustedNow(offset)
      s1 == expirySweep(St, got.recordings, tnow)
      s2 == scheduleRecordings(s1, got.recordings, settings, tnow)
  IN /\ mounted
     /\ serverOffsetMs' = offset
     /\ recordings' = got.recordings
     /\ Store(s2)
     /\ Requested(manualRequest)
     /\ Met(s1.scheduledRecordings,
            {got.recordings[i].id : i \in DOMAIN got.recordings} \cap s1.scheduledRecordings)
     /\ UNCHANGED <<now, server, settings, Platform, Form, Fetch, Offstage>>

\* Settings.handleSubmit -> setSettings, and the Playlist effects it runs.
ChangeSettings(rs) ==
  LET s1 == scheduleKeyEffect(St, scheduleKey(rs))
      s2 == scheduleRecordings(s1, recordings, rs, trustedNow(serverOffsetMs))
  IN /\ mounted
     /\ settings' = rs
     /\ Store(s2)
     /\ Requested(manualRequest)
     /\ Observed(s1.scheduledRecordings, {}, scheduledRecordings \ s1.scheduledRecordings)
     /\ UNCHANGED <<now, server, recordings, serverOffsetMs, Platform, Form, Fetch, Offstage>>

\* ------------------------------------------------------------------ timers
\* The browser runs a timer no sooner than it is due and after every timer due
\* earlier; the slot timers of one recording are armed in slot order.
CanFire(t) ==
  /\ t.due <= now
  /\ \A u \in BagToSet(timeouts) :
       /\ u.due >= t.due
       /\ (u.due = t.due /\ u.kind = "slot" /\ t.kind = "slot" /\ RecOf(u.id) = RecOf(t.id))
            => u.id[2] >= t.id[2]

\* The slot timer callback without its request for playback.
slotTimerCallbackSilent(s, playId) ==
  [s EXCEPT !.items = SetStatus(@, playId, "ready")]

slotTimerCallback(s, playId) ==
  playWhenAvailable([s EXCEPT !.items = SetStatus(@, playId, "ready"),
                              !.writes = @ \cup Changes(s.items, playId, "ready", "timer")],
                    playId, FALSE)

SlotTimerFire(t) ==
  /\ t.kind = "slot"
  /\ CanFire(t)
  /\ Store(slotTimerCallback([St EXCEPT !.timeouts = BagDel(@, t)], t.id))
  /\ Requested(manualRequest \ {t.id})
  /\ Observed(scheduledRecordings, {}, {})
  /\ UNCHANGED <<now, App, Platform, Form, Fetch, Offstage>>

RetryTimerFire(t) ==
  /\ t.kind = "retry"
  /\ CanFire(t)
  /\ Store(playWhenAvailable([St EXCEPT !.timeouts = BagDel(@, t)], t.id, FALSE))
  /\ Requested(manualRequest \ {t.id})
  /\ Observed(scheduledRecordings, {}, {})
  /\ UNCHANGED <<now, App, Platform, Form, Fetch, Offstage>>

\* ---------------------------------------------------------- audio elements
\* The elements that can still deliver an event: the one audiosRef holds for
\* an entry id.  (A paused element delivers none, and an element is let go of
\* without a pause only in its own last handler.)
Elements ==
  {[id |-> id, mode |-> audiosRef[id].mode, promises |-> audiosRef[id].promises] :
     id \in DOMAIN audiosRef}

\* The state with element e set apart, for the handler of its event to run in.
Without(e) == [St EXCEPT !.audiosRef = MapDel(@, e.id)]

\* play() resolves: nothing follows the await, the element is sounding.
PlayResolved(e) ==
  /\ e.mode = "loading"
  /\ Store([St EXCEPT !.audiosRef[e.id] = [mode |-> "playing", promises |-> <<>>]])
  /\ Requested(manualRequest)
  /\ Observed(scheduledRecordings, {}, {})
  /\ UNCHANGED <<now, App, Platform, Form, Fetch, Offstage>>

\* play() rejects because the platform's autoplay policy blocks it, which it
\* does only before a user gesture.
PlayRejected(e) ==
  /\ e.mode = "loading"
  /\ ~userActivated
  /\ Store(playCatchAll(Without(e), e.id, e.promises))
  /\ Requested(manualRequest \ {e.id})
  /\ Observed(scheduledRecordings, {}, {})
  /\ UNCHANGED <<now, App, Platform, Form, Fetch, Offstage>>

\* The error event (audio.onerror), after which the pending play() promises of
\* the element reject as well.
AudioError(e) ==
  /\ e.mode \in {"loading", "playing"}
  /\ Store(playCatchAll(handleError(Without(e), e.id, FALSE, FALSE), e.id, e.promises))
  /\ Requested(manualRequest \ {e.id})
  /\ Observed(scheduledRecordings, {}, {})
  /\ UNCHANGED <<now, App, Platform, Form, Fetch, Offstage>>

\* The ended event (audio.onended).
AudioEnded(e) ==
  /\ e.mode = "playing"
  /\ Store(onended(Without(e), e.id))
  /\ Requested(manualRequest \ {e.id})
  /\ Observed(scheduledRecordings, {}, {})
  /\ UNCHANGED <<now, App, Platform, Form, Fetch, Offstage>>

\* ------------------------------------------------------------------- user
\* The "play now" button, shown for an entry that is ready.  A click follows
\* the pointerdown or keydown that makes it, which the window has then seen.
retryPlay(s, id) == playWhenAvailable(s, id, TRUE)

RetryPlay(id) ==
  /\ mounted
  /\ "ready" \in StatusesOf(items, id)
  /\ userActivated
  /\ Store(retryPlay(St, id))
  /\ Requested(manualRequest \cup {id})
  /\ Observed(scheduledRecordings, {}, {})
  /\ UNCHANGED <<now, App, Platform, Form, Fetch, Offstage>>

\* The first pointerdown or keydown in the window: unlockHandler.  The listeners
\* are once-only, and a second call of attemptAutoplayUnlock returns at its
\* guard, so only the first gesture is a step.
UserGesture ==
  /\ ~userActivated
  /\ userActivated' = TRUE
  /\ Store(IF mounted THEN attemptAutoplayUnlock(St) ELSE St)
  /\ Requested(manualRequest)
  /\ Observed(scheduledRecordings, {}, {})
  /\ UNCHANGED <<now, App, mounted, Form, Fetch, Offstage>>

\* The component is unmounted (the user logs out): the cleanups of the
\* effects run, which clear the interval, remove the unlock listeners and
\* run unmountCleanup.  The App goes on without a Playlist, so the model
\* follows only what the unmounted Playlist left behind.
Unmount ==
  /\ mounted
  /\ mounted' = FALSE
  /\ Store(unmountCleanup(St))
  /\ Requested(manualRequest)
  /\ Observed(scheduledRecordings, {}, {})
  /\ UNCHANGED <<now, App, userActivated, Form, Fetch, Offstage>>

\* The silent clip's play() settles either way: .finally(retryPendingAutoplay).
SilentSettled ==
  /\ silentPending
  /\ Store([retryPendingAutoplay(St) EXCEPT !.silentPending = FALSE])
  /\ Requested(manualRequest \ Range(pendingAutoplay))
  /\ Observed(scheduledRecordings, {}, {})
  /\ UNCHANGED <<now, App, Platform, Form, Fetch, Offstage>>

Next ==
  \/ Tick
  \/ \E r \in Recordings : Upload(r)
  \/ \E outcome \in {"dated", "undated", "failed"} : LoadRecordings(outcome)
  \/ \E rs \in Configs : ChangeSettings(rs)
  \/ \E t \in BagToSet(timeouts) : SlotTimerFire(t)
  \/ \E t \in BagToSet(timeouts) : RetryTimerFire(t)
  \/ \E e \in Elements : PlayResolved(e)
  \/ \E e \in Elements : PlayRejected(e)
  \/ \E e \in Elements : AudioError(e)
  \/ \E e \in Elements : AudioEnded(e)
  \/ \E id \in ItemIds(items) : RetryPlay(id)
  \/ UserGesture
  \/ Unmount
  \/ SilentSettled

Spec == Init /\ [][Next]_vars

\* ------------------------------------- the server's clock ahead
\* The same App and Playlist when the server's clock is ahead of the client's
\* and every response that is ok exposes its Date header.
AlignedInit == InitApp /\ skew = ServerSkew /\ InitApi /\ InitAuth

AlignedNext ==
  \/ Tick
  \/ \E r \in Recordings : Upload(r)
  \/ \E outcome \in {"dated", "failed"} : LoadRecordings(outcome)
  \/ \E rs \in Configs : ChangeSettings(rs)
  \/ \E t \in BagToSet(timeouts) : SlotTimerFire(t)
  \/ \E t \in BagToSet(timeouts) : RetryTimerFire(t)
  \/ \E e \in Elements : PlayResolved(e)
  \/ \E e \in Elements : PlayRejected(e)
  \/ \E e \in Elements : AudioError(e)
  \/ \E e \in Elements : AudioEnded(e)
  \/ \E id \in ItemIds(items) : RetryPlay(id)
  \/ UserGesture
  \/ Unmount
  \/ SilentSettled

AlignedSpec == AlignedInit /\ [][AlignedNext]_vars

\* ------------------------------------------------- the normalizers alone
\* Any list can be in the form; the Playlist is idle.
FormInit ==
  /\ InitPlaylist
  /\ InitApi
  /\ InitAuth
  /\ skew = 0
  /\ repeatSettings \in Forms
  /\ normalized = <<>>
  /\ normalizer = "none"

Idle == <<now, App, Platform, Playlist, Fetch, Offstage, manualRequest, observed>>

\* The form is submitted; App takes the list as its settings and the effect of
\* Settings puts it back into the form.
HandleSubmit ==
  /\ normalized' = handleSubmit(repeatSettings)
  /\ repeatSettings' = normalized'
  /\ normalizer' = "handleSubmit"
  /\ UNCHANGED Idle

SanitizeRepeatSettings ==
  /\ normalizer = "none"
  /\ normalized' = sanitizeRepeatSettings(repeatSettings)
  /\ normalizer' = "sanitizeRepeatSettings"
  /\ UNCHANGED <<Idle, repeatSettings>>

\* The Playlist is handed the list as its settings.
SanitizedRepeats ==
  /\ normalizer = "none"
  /\ normalized' = sanitizedRepeatsIn(repeatSettings, GapUnit, RateUnit)
  /\ normalizer' = "sanitizedRepeats"
  /\ UNCHANGED <<Idle, repeatSettings>>

FormNext == HandleSubmit \/ SanitizeRepeatSettings \/ SanitizedRepeats

FormSpec == FormInit /\ [][FormNext]_vars

\* ------------------------------------------------------- the poll alone
\* App.load step by step: fetch resolves, fetchRecordings reads the clock and
\* awaits the body, load takes what it returns.  What the Playlist makes of the
\* list is followed in Spec; here the Playlist is left alone.
Stamps == {Missing, Unparsable} \cup 0..MaxTime

RowLists ==
  UNION {{[i \in 1..n |-> [id |-> i, created_at |-> f[i]]] : f \in [1..n -> Stamps]} :
           n \in 0..MaxRows}

\* A response that is not ok has no body that is read.
Responses ==
  {[ok |-> TRUE, date |-> d, rows |-> rows] :
     d \in {Null} \cup 0..(MaxTime + 1), rows \in RowLists}
  \cup {[ok |-> FALSE, date |-> Null, rows |-> <<>>]}

Bystanders == <<server, settings, skew, Platform, Playlist, Form, Offstage, manualRequest, observed>>

\* `await fetch(...)` resolves with the response; Date.now() is read (line 261).
Respond(response) ==
  /\ inFlight = NoResponse
  /\ inFlight' = <<[response |-> response, clientNow |-> now]>>
  /\ UNCHANGED <<now, recordings, serverOffsetMs, Bystanders>>

\* Time passes, also while `await response.json()` waits for the body.
Elapse ==
  /\ now < MaxTime
  /\ now' = now + 1
  /\ UNCHANGED <<recordings, serverOffsetMs, inFlight, Bystanders>>

\* load / refreshRecordings once fetchRecordings has returned got:
\* if (serverNow) setServerOffsetMs(serverNow - Date.now()); setRecordings(latest).
load(got, offset, dateNow) ==
  [recordings |-> got.recordings,
   serverOffsetMs |-> IF got.hasServerNow THEN got.serverNow - dateNow ELSE offset]

\* The body has arrived: fetchRecordings returns and load stores the result.
Loaded ==
  /\ inFlight # NoResponse
  /\ \E f \in {inFlight[1]} :
       \E l \in {load(readResponse(f.response, f.clientNow), serverOffsetMs, now)} :
          /\ recordings' = l.recordings
          /\ serverOffsetMs' = l.serverOffsetMs
  /\ inFlight' = NoResponse
  /\ UNCHANGED <<now, Bystanders>>

FetchNext == (\E response \in Responses : Respond(response)) \/ Elapse \/ Loaded

FetchSpec == Init /\ [][FetchNext]_vars

\* ---------------------------------------------- the API server's play limit
\* The rows the SELECT of enforcePlaybackLimit finds: LIMIT 1 of table sounds.
Methods == {"GET", "HEAD", "POST"}

\* totalAllowed: the row's total_plays (an INT column, so a finite number).
totalAllowedOf(sound) == sound.total_plays

\* UPDATE sounds SET plays_completed = plays_completed + 1
\* WHERE id = ? AND plays_completed < ?, without its second condition.
conditionalUpdateUnguarded(rows, totalAllowed) ==
  [rows |-> [i \in DOMAIN rows |-> [rows[i] EXCEPT !.plays_completed = @ + 1]],
   affectedRows |-> Len(rows)]

\* UPDATE sounds SET plays_completed = plays_completed + 1
\* WHERE id = ? AND plays_completed < ?: one statement, so atomic on the row.
conditionalUpdate(rows, totalAllowed) ==
  LET hit == {i \in DOMAIN rows : rows[i].plays_completed < totalAllowed}
  IN [rows |-> [i \in DOMAIN rows |->
                  IF i \in hit THEN [rows[i] EXCEPT !.plays_completed = @ + 1] ELSE rows[i]],
      affectedRows |-> Cardinality(hit)]

\* Any row of an uploaded file that has not been played more than allowed, or
\* no row at all; nobody has asked for the file.
LimitInit ==
  /\ InitApp
  /\ InitAuth
  /\ skew = 0
  /\ requests = [r \in 1..MaxRequests |-> NewRequest]
  /\ sounds \in {<<>>} \cup
               {<<[plays_completed |-> done, total_plays |-> total]>> :
                  done \in 0..MaxTotalPlays, total \in 0..MaxTotalPlays}
  /\ \A i \in DOMAIN sounds : sounds[i].plays_completed <= sounds[i].total_plays

Elsewhere == <<now, App, Platform, Playlist, Form, Fetch, Auth, manualRequest, observed>>

\* enforcePlaybackLimit up to the await of the SELECT: another method than GET
\* or HEAD is passed on at once.
Arrive(r, method) ==
  /\ requests[r].at = "idle"
  /\ requests' = [requests EXCEPT ![r] =
                    [@ EXCEPT !.method = method,
                              !.at = IF method \in {"GET", "HEAD"} THEN "select" ELSE "next"]]
  /\ UNCHANGED <<sounds, Elsewhere>>

\* The SELECT resolves: no row passes the request on, a row that is played
\* out answers 410, any other row leads to the UPDATE.
Selected(r) ==
  /\ requests[r].at = "select"
  /\ requests' = [requests EXCEPT ![r] =
                    IF sounds = <<>>
                    THEN [@ EXCEPT !.at = "next"]
                    ELSE IF sounds[1].plays_completed >= totalAllowedOf(sounds[1])
                    THEN [@ EXCEPT !.at = "410"]
                    ELSE [@ EXCEPT !.at = "update",
                                   !.totalAllowed = totalAllowedOf(sounds[1])]]
  /\ UNCHANGED <<sounds, Elsewhere>>

\* The UPDATE runs and resolves: without an affected row the answer is 410,
\* with one the request is passed on to express.static.
Updated(r) ==
  /\ requests[r].at = "update"
  /\ \E result \in {conditionalUpdate(sounds, requests[r].totalAllowed)} :
       /\ sounds' = result.rows
       /\ requests' = [requests EXCEPT ![r] =
                         IF result.affectedRows = 0
                         THEN [@ EXCEPT !.at = "410"]
                         ELSE [@ EXCEPT !.at = "next",
                                        !.increments = @ + result.affectedRows]]
  /\ UNCHANGED Elsewhere

\* A query rejects: the catch answers 500.
QueryFailed(r) ==
  /\ requests[r].at \in {"select", "update"}
  /\ requests' = [requests EXCEPT ![r] = [@ EXCEPT !.at = "500"]]
  /\ UNCHANGED <<sounds, Elsewhere>>

LimitNext ==
  \E r \in 1..MaxRequests :
     \/ \E method \in Methods : Arrive(r, method)
     \/ Selected(r)
     \/ Updated(r)
     \/ QueryFailed(r)

LimitSpec == LimitInit /\ [][LimitNext]_vars

\* ------------------------------------------------ the App's auth state
Passwords == 0..MaxPasswords

\* The lists of recorder users: none, or one of the users.
UserLists == {<<>>} \cup {<<u>> : u \in 1..MaxUsers}

AuthStates == {AuthState(password, users) : password \in Passwords, users \in UserLists}

\* What saveAuthStateToServer resolves to: the state in the server's answer, or
\* null (NotSaved) when the answer is not ok or the request throws.
NotSaved == <<>>

Saved == AuthStates \cup {NotSaved}

\* persistAuthState after its await, with the rollback left out.
persistSettledKeepsOptimistic(call, saved) ==
  IF saved # NotSaved
  THEN [state |-> saved, returned |-> TRUE]
  ELSE [state |-> call.nextAuth, returned |-> FALSE]

\* persistAuthState after its await: the state it sets and what it returns.
persistSettled(call, saved) ==
  IF saved # NotSaved
  THEN [state |-> saved, returned |-> TRUE]
  ELSE [state |-> call.previousState, returned |-> FALSE]

\* The App has loaded some auth state; no call of persistAuthState yet.
AuthInit ==
  /\ InitApp
  /\ InitApi
  /\ skew = 0
  /\ adminPassword \in Passwords
  /\ recorderUsers \in UserLists
  /\ persists = [c \in 1..MaxPersists |-> NoCall]

Backdrop == <<now, App, Platform, Playlist, Form, Fetch, Api, manualRequest, observed>>

\* persistAuthState up to its await: previousState is the state of the render
\* the handler belongs to, and the optimistic update is set. The calls are
\* numbered in the order in which they are made.
persistAuthState(c, nextAuth) ==
  /\ persists[c].at = "idle"
  /\ \A b \in 1..(c - 1) : persists[b].at # "idle"
  /\ persists' = [persists EXCEPT ![c] =
                    [at |-> "saving",
                     previousState |-> AuthState(adminPassword, recorderUsers),
                     nextAuth |-> nextAuth,
                     returned |-> FALSE]]
  /\ adminPassword' = nextAuth.adminPassword
  /\ recorderUsers' = nextAuth.recorderUsers
  /\ UNCHANGED Backdrop

\* Settings: a new admin password is submitted.
handleAdminPasswordChange(c, password) ==
  persistAuthState(c, AuthState(password, recorderUsers))

\* Settings: a recorder user is added or removed.
handleRecorderUsersChange(c, users) ==
  persistAuthState(c, AuthState(adminPassword, users))

\* saveAuthStateToServer resolves and persistAuthState runs to its end.
SaveSettled(c, saved) ==
  /\ persists[c].at = "saving"
  /\ \E end \in {persistSettled(persists[c], saved)} :
       /\ adminPassword' = end.state.adminPassword
       /\ recorderUsers' = end.state.recorderUsers
       /\ persists' = [persists EXCEPT ![c] = [@ EXCEPT !.at = "returned",
                                                       !.nextAuth = defaultAuthState,
                                                       !.returned = end.returned]]
  /\ UNCHANGED Backdrop

AuthNext ==
  \E c \in 1..MaxPersists :
     \/ \E password \in Passwords : handleAdminPasswordChange(c, password)
     \/ \E users \in UserLists : handleRecorderUsersChange(c, users)
     \/ \E saved \in Saved : SaveSettled(c, saved)

AuthSpec == AuthInit /\ [][AuthNext]_vars

\* ------------------------------------------------------------- properties
\* C1: in every reachable state at most one entry has status `playing`.
MutualExclusion == Cardinality(Playing(items)) <= 1

\* An entry holds the turn while another one, whose timer has fired, waits in
\* the queue.
OnePlaysOneWaits ==
  /\ Cardinality(Playing(items)) = 1
  /\ \E id \in Range(playbackQueue) : StatusesOf(items, id) = {"ready"}

\* C2: playback is granted in the order of the requests: a step that gives an
\* entry the turn while entries wait in the queue gives it to the entry at the
\* head of the queue, never to one that asked later.
FifoGrant ==
  [][\A id \in ItemIds(items') :
       ( /\ "playing" \notin StatusesOf(items, id)
         /\ "playing" \in StatusesOf(items', id)
         /\ playbackQueue # <<>> )
       => id = Head(playbackQueue)]_vars

\* The event of element e that takes the playback turn from its entry.
TurnEnds(e) ==
  /\ getCurrentlyPlayingId(St) = e.id
  /\ AudioEnded(e) \/ AudioError(e) \/ PlayRejected(e)

\* C3: whenever the entry that holds the turn ends, errors or has its play
\* attempt rejected, the entry at the head of the queue is taken off the queue
\* and attempted.
QueueAdvances ==
  [][\A e \in Elements :
       (TurnEnds(e) /\ playbackQueue # <<>>)
       => /\ Head(playbackQueue) \notin Range(playbackQueue')
          /\ \/ "playing" \in StatusesOf(items', Head(playbackQueue))
             \/ Head(playbackQueue) \notin ItemIds(items')]_vars

\* C4: a play attempt that retryPlay asked for, at once or after a wait in the
\* queue, and that fails removes its entry: the entry is not left in the
\* table (in `ready`), is not put in the pending-autoplay set and gets no
\* retry timer.
ManualFailureIsFinal ==
  [][\A e \in Elements :
       (e.id \in manualRequest /\ (PlayRejected(e) \/ AudioError(e)))
       => /\ e.id \notin ItemIds(items')
          /\ e.id \notin Range(pendingAutoplay')
          /\ e.id \notin DOMAIN retryTimersRef']_vars

\* C5: an entry whose play attempt the autoplay policy rejects stays in the
\* entry table, in `ready`, with a retry ahead of it: it is not moved to
\* `error` and not removed.
BlockedStaysReady ==
  [][\A e \in Elements :
       PlayRejected(e)
       => /\ StatusesOf(items', e.id) = {"ready"}
          /\ e.id \in DOMAIN retryTimersRef' \/ e.id \in Range(pendingAutoplay')]_vars

\* C6: the entry table never holds two entries for the same (recording, slot)
\* pair, and no two slot timers are armed for the same pair.
NoDuplicateEntries ==
  /\ \A i, j \in DOMAIN items : items[i].id = items[j].id => i = j
  /\ \A t, u \in BagToSet(timeouts) :
       (t.kind = "slot" /\ u.kind = "slot" /\ t.id = u.id)
       => (t = u /\ CopiesIn(t, timeouts) = 1)

\* A poll has listed a recording again whose entries and slot timers are there.
ListedAgainWhileScheduled ==
  \E r \in {x \in DOMAIN observed : observed[x] = "again"} :
    /\ \E i \in DOMAIN items : RecOf(items[i].id) = r
    /\ \E t \in BagToSet(timeouts) : t.kind = "slot" /\ RecOf(t.id) = r

\* The entries of recording r in an entry table, and its slot timers.
EntriesOf(its, r, k) == {i \in DOMAIN its : its[i].id = <<r, k>>}

TornDown(r, its, tos, audios, seen) ==
  /\ \A i \in DOMAIN its : RecOf(its[i].id) # r
  /\ \A t \in BagToSet(tos) : RecOf(t.id) # r
  /\ \A id \in DOMAIN audios : RecOf(id) # r
  /\ r \notin seen

\* A step that runs the expiry sweep: the clock tick or a new recordings list.
Sweeps == Tick \/ \E outcome \in {"dated", "undated", "failed"} : LoadRecordings(outcome)

\* C9: once createdAt + TTL <= trustedNow() holds for a recording the scheduler
\* has entries of, the next expiry sweep leaves no entry, no armed slot or
\* retry timer and no retained audio element of it, and its id is no longer in
\* the seen-set.
ExpiredTornDown ==
  [][Sweeps
     => \A i \in DOMAIN items :
          isExpired(items[i].createdAt, now' + serverOffsetMs')
          => TornDown(RecOf(items[i].id), items', timeouts', audiosRef',
                      scheduledRecordings')]_vars

\* C10: when a recording that has entries is absent from a new recordings
\* list, all its entries, timers and audio are torn down and its id leaves the
\* seen-set.
AbsentTornDown ==
  [][\A outcome \in {"dated", "undated", "failed"} :
       LoadRecordings(outcome)
       => \A i \in DOMAIN items :
            (\A n \in DOMAIN recordings' : recordings'[n].id # RecOf(items[i].id))
            => TornDown(RecOf(items[i].id), items', timeouts', audiosRef',
                        scheduledRecordings')]_vars

\* C11: after the component is unmounted no slot timer and no retry timer is
\* armed (the 1-second interval is cleared with `mounted`) and no audio element
\* is loading or sounding, whatever callback or play() outcome was in flight.
QuietAfterUnmount ==
  ~mounted => /\ timeouts = EmptyBag
              /\ \A id \in DOMAIN audiosRef : audiosRef[id].mode = "paused"

\* What a normalizer owes for the list `in`: six entries in the order of `in`,
\* each gap a whole non-negative number of seconds, the nearest to the one put
\* in, each rate within [0.5, 3.0] and within half a hundredth of the one put
\* in where that lies in the range, and {30 s, 1.0, enabled} wherever `in`
\* has no entry.
Distance(a, b) == IF a >= b THEN a - b ELSE b - a

Clamp(lo, x, hi) == Min(hi, Max(lo, x))

WellNormalized(in, out) ==
  /\ Len(out) = 6
  /\ \A i \in 1..Len(out) :
       /\ out[i].gapSeconds >= 0
       /\ out[i].gapSeconds % GapUnit = 0
       /\ out[i].playbackRate >= RateUnit \div 2
       /\ out[i].playbackRate <= 3 * RateUnit
       /\ i <= Len(in) =>
            /\ 2 * Distance(out[i].gapSeconds, Max(0, in[i].gapSeconds)) <= GapUnit
            /\ 200 * Distance(out[i].playbackRate,
                              Clamp(RateUnit \div 2, in[i].playbackRate, 3 * RateUnit))
                 <= RateUnit
       /\ i > Len(in) =>
            /\ out[i].gapSeconds = 30 * GapUnit
            /\ out[i].playbackRate = RateUnit
            /\ isEnabled(out[i])

\* C12: whatever list is put in, each normalizer (Settings.handleSubmit,
\* sanitizeRepeatSettings and the Playlist's sanitizedRepeats) returns exactly
\* six entries in input order with whole non-negative gaps and rates within
\* [0.5, 3.0], the missing positions filled with {30, 1.0, enabled}.
NormalizersWellFormed ==
  [][FormNext => WellNormalized(repeatSettings, normalized')]_vars

\* C13: normalizing a list a normalizer has returned gives the same list, field
\* for field, so submitting the form again changes neither the settings nor
\* the Playlist's schedule key.
NormalizationIdempotent ==
  /\ normalizer = "handleSubmit" =>
       /\ handleSubmit(normalized) = normalized
       /\ sanitizedRepeatsIn(handleSubmit(normalized), GapUnit, RateUnit)
            = sanitizedRepeatsIn(normalized, GapUnit, RateUnit)
  /\ normalizer = "sanitizeRepeatSettings" => sanitizeRepeatSettings(normalized) = normalized
  /\ normalizer = "sanitizedRepeats" =>
       sanitizedRepeatsIn(normalized, GapUnit, RateUnit) = normalized

\* The form held 2.5 s at 0.25x in its first entry and was submitted.
SubmittedRounded ==
  /\ normalizer = "handleSubmit"
  /\ normalized[1].gapSeconds = 3 * GapUnit
  /\ normalized[1].playbackRate = RateUnit \div 2
  /\ repeatSettings = normalized

\* C14: whatever list is put in, the list a normalizer returns has at least one
\* of its six slots enabled.
SomeSlotEnabled ==
  normalizer # "none" => \E i \in 1..6 : isEnabled(normalized[i])

\* Six entries that were all switched off were submitted: the first, 10 s at
\* more than 3.0x, is the one that came out enabled.
ForcedFirstSlot ==
  /\ normalizer = "handleSubmit"
  /\ normalized[1] = [gapSeconds |-> 10 * GapUnit, playbackRate |-> 3 * RateUnit,
                      enabled |-> TRUE]
  /\ \A i \in 2..6 : ~isEnabled(normalized[i])

AllOff(form) == \A i \in 1..Len(form) : ~isEnabled(form[i])

OnlyFirstOn(out) == isEnabled(out[1]) /\ \A i \in 2..6 : ~isEnabled(out[i])

\* C15 as stated: whenever every entry put in is switched off, however many
\* entries that is, handleSubmit returns slot 1 enabled and slots 2 to 6
\* disabled.
AllOffForcesFirstAnyLength ==
  [][(HandleSubmit /\ AllOff(repeatSettings)) => OnlyFirstOn(normalized')]_vars

\* C15, amended: the same for a list of at least six entries.
AllOffForcesFirst ==
  [][(HandleSubmit /\ AllOff(repeatSettings) /\ Len(repeatSettings) >= 6)
     => OnlyFirstOn(normalized')]_vars

\* Six switched-off entries were submitted, the last of them with a negative
\* gap, and only the first came out enabled.
ForcedFirstOfSix ==
  /\ normalizer = "handleSubmit"
  /\ OnlyFirstOn(normalized)
  /\ normalized[1].playbackRate = 3 * RateUnit
  /\ normalized[6] = [gapSeconds |-> 0, playbackRate |-> RateUnit, enabled |-> FALSE]

\* The rank of slot k among the enabled slots of rs.
PlayRank(rs, k) == Cardinality({j \in 1..k : nextPlayTimes(rs)[j] # Null})

TenSecondGaps(out, off) ==
  /\ Len(out) = 6
  /\ \A i \in 1..6 :
       /\ out[i].gapSeconds = (IF i = 1 THEN 0 ELSE 10 * GapUnit)
       /\ isEnabled(out[i]) <=> i \notin off

Seconds(seq) == [i \in DOMAIN seq |-> seq[i] * GapUnit]

Started == {i \in DOMAIN items' : items'[i].status = "playing"
                                   /\ \A j \in Playing(items) : items[j].id # items'[i].id}

\* C18: the entries of one recording start playing in the order of their play
\* numbers: none starts while an entry of the same recording with a smaller
\* play number is still there, waiting for its play.
PlaysInOrder ==
  [][\A i \in Started : \A j \in DOMAIN items' :
       RecOf(items'[j].id) = RecOf(items'[i].id)
       => items'[j].playNumber >= items'[i].playNumber]_vars

\* The transitions of the entry state machine, each with the code that makes
\* it.  (This Playlist has no status `queued`: an entry in the queue is `ready`.)
Transitions ==
  {<<"scheduled", "ready", "timer">>, <<"ready", "playing", "play">>,
   <<"queued", "playing", "play">>, <<"playing", "done", "ended">>,
   <<"playing", "ready", "error">>, <<"playing", "error", "error">>}

Lawful(s) == settle(s).writes \subseteq Transitions

\* C19: every status change a handler makes to an entry is a transition of the
\* state machine; in particular none leads from `scheduled` to `playing`, and
\* none leads out of `done` or `error`.
StatusMachine ==
  [][/\ Tick => Lawful(IF mounted
                       THEN expirySweep([St EXCEPT !.clock = now + 1], recordings,
                                        now + 1 + serverOffsetMs)
                       ELSE St)
     /\ \A outcome \in {"dated", "undated", "failed"} :
          LoadRecordings(outcome)
          => Lawful(scheduleRecordings(
                      expirySweep(St, recordings', trustedNow(serverOffsetMs')),
                      recordings', settings, trustedNow(serverOffsetMs')))
     /\ \A rs \in Configs :
          ChangeSettings(rs)
          => Lawful(scheduleRecordings(scheduleKeyEffect(St, scheduleKey(rs)), recordings,
                                       rs, trustedNow(serverOffsetMs)))
     /\ \A t \in BagToSet(timeouts) :
          /\ SlotTimerFire(t)
               => Lawful(slotTimerCallback([St EXCEPT !.timeouts = BagDel(@, t)], t.id))
          /\ RetryTimerFire(t)
               => Lawful(playWhenAvailable([St EXCEPT !.timeouts = BagDel(@, t)], t.id, FALSE))
     /\ \A e \in Elements :
          /\ PlayRejected(e) => Lawful(playCatchAll(Without(e), e.id, e.promises))
          /\ AudioError(e)
               => Lawful(playCatchAll(handleError(Without(e), e.id, FALSE, FALSE),
                                      e.id, e.promises))
          /\ AudioEnded(e) => Lawful(onended(Without(e), e.id))
     /\ \A id \in ItemIds(items) : RetryPlay(id) => Lawful(retryPlay(St, id))
     /\ Unmount => Lawful(unmountCleanup(St))
     /\ SilentSettled => Lawful(retryPendingAutoplay(St))]_vars

\* The queue holds no id twice.
NoDuplicates(q) == \A i, j \in DOMAIN q : q[i] = q[j] => i = j

\* Another entry than id holds the playback turn.
Busy(id) == getCurrentlyPlayingId(St) \notin {NoId, id}

\* The request for playback of entry id has put it at the tail of the queue,
\* unless it was there, and has given it the status `queued`.
Enqueued(id) ==
  /\ playbackQueue' = IF id \in Range(playbackQueue) THEN playbackQueue
                      ELSE Append(playbackQueue, id)
  /\ StatusesOf(items', id) = {"queued"}

\* C20: a request for playback of an entry (its slot timer, its retry timer,
\* the play-now button) made while a different entry is `playing` appends the
\* entry's id to the tail of the queue unless it is there already and sets the
\* entry's status to `queued`; the queue never holds an id twice.
QueuedWhenBusy ==
  [][/\ \A t \in BagToSet(timeouts) :
          ((SlotTimerFire(t) \/ RetryTimerFire(t)) /\ Busy(t.id)) => Enqueued(t.id)
     /\ \A id \in ItemIds(items) : (RetryPlay(id) /\ Busy(id)) => Enqueued(id)
     /\ NoDuplicates(playbackQueue')]_vars

\* Every play() of element e that is pending was asked for automatically.
AutomaticOnly(e) == e.promises # <<>> /\ \A i \in DOMAIN e.promises : ~e.promises[i]

\* Entry id has a retry timer that is due RetryDelay from now, and only that.
RetryArmed(id) ==
  /\ id \in DOMAIN retryTimersRef'
  /\ retryTimersRef'[id] = now + RetryDelay
  /\ CopiesIn(Timeout("retry", id, now + RetryDelay), timeouts') = 1

ManualOnly(e) == e.promises # <<>> /\ \A i \in DOMAIN e.promises : e.promises[i]

\* Nothing is kept for entry id after the step: no entry, no timer, no audio
\* element, no place in the queue, no note in the pending-autoplay set.
Forgotten(id) ==
  /\ id \notin ItemIds(items')
  /\ id \notin DOMAIN timersRef' \cup DOMAIN retryTimersRef' \cup DOMAIN audiosRef'
  /\ \A t \in BagToSet(timeouts') : t.id # id
  /\ id \notin Range(playbackQueue') \cup Range(pendingAutoplay')

\* The entry that waited at the head of the queue behind entry id has been
\* taken off the queue and attempted.
HeadAttempted(id) ==
  \A h \in {Head(q) : q \in {SeqRemove(playbackQueue, id)} \ {<<>>}} :
     /\ h \notin Range(playbackQueue')
     /\ \/ "playing" \in StatusesOf(items', h)
        \/ h \notin ItemIds(items')

\* C22: on a terminal failure of an entry (the error event of its audio
\* element, or the rejection of a manual-flagged attempt) the entry is set to
\* `error`, its slot timer, retry timer, audio element, queue membership and
\* pending-autoplay membership are removed, it leaves the entry table, and the
\* head of the queue, if any, is dequeued and attempted.
TerminalFailureRemoves ==
  [][\A e \in Elements :
       ( /\ e.id \in ItemIds(items)
         /\ AudioError(e) \/ (PlayRejected(e) /\ ManualOnly(e)) )
       => /\ \E w \in handleError(Without(e), e.id, FALSE, FALSE).writes :
               w[2] = "error"
          /\ Forgotten(e.id)
          /\ HeadAttempted(e.id)]_vars

\* The state in which onended of entry id turns to the queue: the entry has
\* been marked and removed.
Ended(s, id) ==
  removeItem([release(s, id) EXCEPT !.items = SetStatus(@, id, "done")], id)

\* C23: when the audio of the playing entry ends, the entry becomes `done`,
\* its timers, audio element, queue and pending-autoplay membership are removed
\* and it leaves the entry table; only then is the head of the queue, if any,
\* popped and granted playback: at that moment the finished entry is not
\* `playing` any more.
EndAdvancesQueue ==
  [][\A e \in Elements :
       (AudioEnded(e) /\ e.id \in ItemIds(items))
       => /\ \E w \in onended(Without(e), e.id).writes : w[2] = "done"
          /\ Forgotten(e.id)
          /\ getCurrentlyPlayingId(Ended(Without(e), e.id)) # e.id
          /\ HeadAttempted(e.id)
          /\ \A q \in {SeqRemove(playbackQueue, e.id)} :
               playbackQueue' = IF q = <<>> THEN q ELSE Tail(q)]_vars

\* The first play of a recording is over and taken off the table, and the
\* entry that waited behind it has the turn.
SuccessorHasTurn ==
  /\ <<1, 1>> \notin ItemIds(items) \cup DOMAIN retryTimersRef \cup Range(pendingAutoplay)
  /\ <<1, 3>> \in DOMAIN audiosRef
  /\ StatusesOf(items, <<1, 3>>) = {"playing"}
  /\ settings = SkipSettings
  /\ observed = [r \in {1} |-> "listed"]
  /\ playbackQueue = <<>>

\* The step leaves the entries, the queue, the pending-autoplay set, the armed
\* timers and the audio elements as they are in s.
Leaves(s) ==
  /\ items' = s.items
  /\ playbackQueue' = s.playbackQueue
  /\ pendingAutoplay' = s.pendingAutoplay
  /\ timeouts' = s.timeouts
  /\ audiosRef' = s.audiosRef

\* C24: a slot timer, a retry timer or a play() rejection that fires for an
\* entry id that is not in the entry table (any more) does nothing: no id is
\* added to the queue or to the pending-autoplay set, no timer is armed, no
\* audio is started and no entry changes.  For a timer it is the timer whose
\* entry is gone; for a rejection it is the play() promise of an element whose
\* error event has just removed the entry.
StaleCallbackIsNoOp ==
  [][/\ \A t \in BagToSet(timeouts) :
          ((SlotTimerFire(t) \/ RetryTimerFire(t)) /\ t.id \notin ItemIds(items))
          => Leaves([St EXCEPT !.timeouts = BagDel(@, t)])
     /\ \A e \in Elements :
          \A s \in {handleError(Without(e), e.id, FALSE, FALSE)} :
             (AudioError(e) /\ e.promises # <<>> /\ e.id \notin ItemIds(s.items))
             => Leaves(s)]_vars

\* C25: on the first pointer or key interaction of the user, and on an autoplay
\* failure, the unlock attempt runs, so that the ids that are in the
\* pending-autoplay set then get their manual-flagged retry when the attempt
\* settles; and when it settles, whatever its outcome, every pending id is
\* requested again (it plays or is enqueued) and the set is emptied.
UnlockRetriesPending ==
  [][/\ (UserGesture /\ mounted /\ pendingAutoplay # <<>>) => silentPending'
     /\ \A e \in Elements :
          (PlayRejected(e) /\ AutomaticOnly(e) /\ e.id \in ItemIds(items))
          => silentPending'
     /\ SilentSettled
        => /\ pendingAutoplay' = <<>>
           /\ \A id \in Range(pendingAutoplay) \cap ItemIds(items) :
                \/ "playing" \in StatusesOf(items', id)
                \/ id \in Range(playbackQueue')]_vars

\* C26: the silent unlock clip is played at most once in a session: a step
\* starts it only while autoplayUnlockedRef is unset, sets the flag with it,
\* and the flag is never unset again, however many recordings are observed,
\* gestures made or autoplay failures met.
SilentClipOnce ==
  [][/\ autoplayUnlocked => autoplayUnlocked'
     /\ silentPending' => autoplayUnlocked'
     /\ (silentPending' /\ ~silentPending) => ~autoplayUnlocked]_vars

\* The clip has been played and has settled, and since then an autoplay
\* failure has left an entry pending and the user has made a gesture.
ClipNotReplayed ==
  /\ autoplayUnlocked
  /\ ~silentPending
  /\ userActivated
  /\ mounted
  /\ \E i \in DOMAIN items : items[i].status = "ready" /\ items[i].id \in Range(pendingAutoplay)

\* The response in flight carries a server time.
Sampled == inFlight # NoResponse /\ inFlight[1].response.ok /\ inFlight[1].response.date # Null

\* C27: the stored clock offset is 0 until a poll returns a server time; a
\* poll or refresh that carries a server time sets it to that server time
\* minus the local clock reading taken when the sample was obtained (when the
\* response arrived); a poll without a server time, and every other step,
\* leaves it unchanged.
OffsetFromSample ==
  /\ serverOffsetMs = 0
  /\ [][IF Loaded /\ Sampled
        THEN serverOffsetMs' = inFlight[1].response.date - inFlight[1].clientNow
        ELSE serverOffsetMs' = serverOffsetMs]_vars

\* The recordings the step observes for the first time, or for the first time
\* since the configuration changed.
Arrived ==
  {r \in scheduledRecordings' :
     r \notin scheduledRecordings \/ previousScheduleKey' # previousScheduleKey}

NowUsed(f) == IF f.response.date # Null THEN f.response.date ELSE f.clientNow

\* The createdAt that row gets: its created_at, or `now` when that is missing
\* or cannot be parsed.
CreatedAt(row, nowUsed) ==
  IF row.created_at \in {Missing, Unparsable} THEN nowUsed ELSE row.created_at

RetryTimers(tos) == {t \in BagToSet(tos) : t.kind = "retry"}

\* No id has two retry timers armed in tos.
OneRetryEach(tos) ==
  \A t \in RetryTimers(tos) :
     /\ CopiesIn(t, tos) = 1
     /\ \A u \in RetryTimers(tos) : u.id = t.id => u = t

\* C30: an entry never has more than one 2-second retry timer armed; a retry
\* timer that fires leaves none armed for its entry (it is a one-shot timer,
\* not an interval), and a retry timer is armed only in a step that rejects an
\* automatic play attempt of the entry, one that was pending on its element.
SingleShotRetry ==
  [][/\ OneRetryEach(timeouts')
     /\ \A t \in BagToSet(timeouts) :
          RetryTimerFire(t) => \A u \in RetryTimers(timeouts') : u.id # t.id
     /\ \A u \in RetryTimers(timeouts') :
          CopiesIn(u, timeouts') > CopiesIn(u, timeouts)
          => /\ u.due = now' + RetryDelay
             /\ u.id \in DOMAIN audiosRef
             /\ FALSE \in Range(audiosRef[u.id].promises)]_vars

\* The retry timer of the first play has fired, once: the entry is being
\* attempted again, its handle is still in retryTimersRef and no retry timer is
\* armed for it.
RetryFiredOnce ==
  /\ mounted
  /\ now = RetryDelay
  /\ StatusesOf(items, <<1, 1>>) = {"playing"}
  /\ <<1, 1>> \in Range(pendingAutoplay)
  /\ <<1, 1>> \in DOMAIN retryTimersRef
  /\ retryTimersRef[<<1, 1>>] = RetryDelay
  /\ \A u \in RetryTimers(timeouts) : u.id # <<1, 1>>

\* C31: an entry that is `playing` is not started again: no retry timer, no
\* unlock retry, no manual retry and no queue advance calls playOnce for the
\* entry that holds the turn (which would set its audio back to 0) before it
\* has ended or failed.
NeverRestarted ==
  [][/\ \A t \in BagToSet(timeouts) :
          RetryTimerFire(t) => getCurrentlyPlayingId(St) # t.id
     /\ \A id \in ItemIds(items) :
          RetryPlay(id) => getCurrentlyPlayingId(St) # id
     /\ SilentSettled => getCurrentlyPlayingId(St) \notin Range(pendingAutoplay)
     /\ \A e \in Elements :
          (AudioEnded(e) \/ AudioError(e))
          => \A h \in {Head(q) : q \in {SeqRemove(playbackQueue, e.id)} \ {<<>>}} :
               "playing" \notin StatusesOf(items, h) \ StatusesOf(items, e.id)]_vars

\* No entry is `playing` and no element is waiting for its play() to settle.
OutputIdle ==
  /\ Playing(items) = {}
  /\ \A id \in DOMAIN audiosRef : audiosRef[id].mode # "loading"

\* C32: whenever no entry is `playing` and no play attempt is in flight, the
\* playback queue is empty: no entry waits in the queue while the output is
\* idle.
NoWaitingWhileIdle == OutputIdle => playbackQueue = <<>>

\* C33: every id in the playback queue is the id of an entry that is in the
\* entry table and is not `playing`: no stale id and no id of the entry that
\* holds the turn is queued.
QueuedAreWaitingEntries ==
  \A id \in Range(playbackQueue) :
     /\ id \in ItemIds(items)
     /\ "playing" \notin StatusesOf(items, id)

\* C34: no entry enters `playing` while its own slot timer is still armed,
\* except in the step in which that timer fires; and a step that re-creates
\* the entries after a configuration change leaves every new entry
\* `scheduled`, with nothing but its slot timer: no retry timer, no note in
\* the pending-autoplay set and no audio element from before the change.
NotBeforeItsTime ==
  [][/\ \A id \in ItemIds(items) :
          ( /\ "playing" \notin StatusesOf(items, id)
            /\ "playing" \in StatusesOf(items', id) )
          => \A t \in BagToSet(timeouts) :
               (t.kind = "slot" /\ t.id = id) => SlotTimerFire(t)
     /\ \A rs \in Configs :
          (ChangeSettings(rs) /\ previousScheduleKey' # previousScheduleKey)
          => /\ \A i \in DOMAIN items' : items'[i].status = "scheduled"
             /\ RetryTimers(timeouts') = {}
             /\ pendingAutoplay' = <<>>
             /\ audiosRef' = EmptyMap]_vars

\* The timers that are armed in tos for an entry of recording r.
TimersOf(tos, r) == {t \in BagToSet(tos) : RecOf(t.id) = r}

\* C35: once the entries of a recording have all finished and been removed, a
\* poll that lists the recording again, the configuration being unchanged,
\* creates no entry and arms no timer for it: a recording is played through
\* its schedule once, not once per poll.
PlayedThroughOnce ==
  [][\A outcome \in {"dated", "undated", "failed"} :
       \A r \in scheduledRecordings :
          ( /\ LoadRecordings(outcome)
            /\ \A id \in ItemIds(items) : RecOf(id) # r
            /\ \E i \in DOMAIN recordings' : recordings'[i].id = r )
          => /\ \A id \in ItemIds(items') : RecOf(id) # r
             /\ \A t \in TimersOf(timeouts', r) : CopiesIn(t, timeouts') <= CopiesIn(t, timeouts)
             /\ r \in scheduledRecordings']_vars

\* The two plays of a recording are over, nothing is left of them, and a poll
\* has met the recording again.
MetAgainAfterPlays ==
  /\ settings = SkipSettings
  /\ scheduledRecordings = {1}
  /\ observed = [r \in {1} |-> "over"]
  /\ \E i \in DOMAIN recordings : recordings[i].id = 1
  /\ items = <<>>
  /\ timeouts = EmptyBag
  /\ audiosRef = EmptyMap
  /\ pendingAutoplay = <<>>

\* C36: every armed slot timer, every armed retry timer, every retained audio
\* element and every id of the pending-autoplay set belongs to an entry that is
\* in the entry table; the removal of an entry leaves none of them behind.
NothingLeftBehind ==
  /\ \A t \in BagToSet(timeouts) : t.id \in ItemIds(items)
  /\ DOMAIN audiosRef \subseteq ItemIds(items)
  /\ Range(pendingAutoplay) \subseteq ItemIds(items)

\* The requests for the file that were passed on to express.static.
Served == {r \in 1..MaxRequests : requests[r].at = "next"}

\* The row is within its limit, and every GET or HEAD request that was passed
\* on made one successful increment.
WithinLimit ==
  \A i \in DOMAIN sounds :
     /\ sounds[i].plays_completed <= sounds[i].total_plays
     /\ \A r \in Served : requests[r].method \in {"GET", "HEAD"} => requests[r].increments = 1

\* A request that finds the row played out, in its SELECT or in its UPDATE, is
\* answered 410 and increments nothing.
FindsPlayedOut(r) ==
  /\ Selected(r) \/ Updated(r)
  /\ sounds # <<>>
  /\ sounds[1].plays_completed >= sounds[1].total_plays

\* C37: whatever the interleaving of the GET and HEAD requests for an uploaded
\* file, plays_completed never exceeds total_plays, a request is passed on to
\* serve the file only if it made one successful increment, and a request that
\* finds plays_completed >= total_plays or loses the conditional UPDATE is
\* answered 410.
PlayLimitEnforced ==
  /\ []WithinLimit
  /\ [][\A r \in 1..MaxRequests :
          FindsPlayedOut(r) => requests'[r].at = "410" /\ sounds' = sounds]_vars

\* Two requests read the row one play short of its limit: one of them was
\* passed on with its increment, the other lost the UPDATE and got 410.
LostTheUpdate ==
  /\ sounds # <<>>
  /\ sounds[1].plays_completed = sounds[1].total_plays
  /\ \E r1, r2 \in 1..MaxRequests :
       /\ requests[r1].at = "next" /\ requests[r1].increments = 1
       /\ requests[r2].at = "410" /\ requests[r2].totalAllowed = sounds[1].total_plays

\* C38: when the save of a call of persistAuthState fails, adminPassword and
\* recorderUsers are set back to the values they had before that call and the
\* call returns false; when it succeeds they are set to the state the server
\* returned and the call returns true; and so for each of two calls that
\* overlap.
PersistSettles ==
  [][\A c \in 1..MaxPersists : \A saved \in Saved :
       SaveSettled(c, saved)
         => /\ persists'[c].returned = (saved # NotSaved)
            /\ AuthState(adminPassword', recorderUsers')
                 = IF saved # NotSaved THEN saved ELSE persists[c].previousState]_vars

\* Two calls overlapped and both failed: the second was made on top of the
\* first one's optimistic update and has put back the values it met.
OverlappedAndRolledBack ==
  /\ \A c \in 1..MaxPersists : persists[c].at = "returned" /\ ~persists[c].returned
  /\ \E c, d \in 1..MaxPersists :
       /\ c < d
       /\ persists[d].previousState # persists[c].previousState
       /\ AuthState(adminPassword, recorderUsers) = persists[d].previousState

====
